---- MODULE Spec2Model ----
(***************************************************************************)
(* Model of python-dag: dag/__init__.py (DAG, TopologicalSorter,           *)
(* CycleError).  A DAG is a set of (source, sink) edges; topsort() builds  *)
(* a TopologicalSorter holding a filtered private copy of the edges, and   *)
(* iterating it (forward or reversed) peels one generation per step.       *)
(***************************************************************************)
EXTENDS Integers, Sequences, FiniteSets, TLC

\* Node identifiers are the integers 1..MaxNode (ordered, as sorted() needs).
MaxNode == 3
\* The DAG holds at most MaxEdges edges.
MaxEdges == 3
\* topsort() is called with at most MaxFilter start nodes and MaxFilter endpoints.
MaxFilter == 1

Nodes == 1..MaxNode
Edges == Nodes \X Nodes
Filters == {F \in SUBSET Nodes : Cardinality(F) <= MaxFilter}

VARIABLES
    dag,        \* the caller's DAG: a set of <<source, sink>> edges
    pc,         \* "idle": no sorter; "new": sorter built; "fwd"/"rev": generator
                \* suspended at its yield; "done": exhausted; "raised": CycleError
                \* raised; "printed": str(CycleError) evaluated
    dir,        \* "none", "iter" (__iter__) or "reversed" (__reversed__)
    graph,      \* TopologicalSorter.graph, the working edge set
    ready,      \* nodes_with_no_incoming_edges / nodes_with_no_outgoing_edges
    gens,       \* the generations yielded so far, in order
    start,      \* the start nodes topsort() was called with
    endpoints,  \* the endpoints topsort() was called with
    snapshot,   \* the DAG's edges when topsort() was called
    graph0,     \* TopologicalSorter.graph as __init__ left it
    report,     \* outcome of CycleError.__str__
    second,     \* a second sorter, from a second topsort() call on the same DAG:
                \* [pc, dir, graph, ready, gens, graph0]
    edit,       \* the last discard()/remove() on the DAG and how it ended:
                \* [op, edge, before, err]
    edits,      \* number of edits of the DAG made since topsort() was called
    sql         \* the SqliteDAG: [name, table, working, pc, gens]

vars == <<dag, pc, dir, graph, ready, gens, start, endpoints, snapshot, graph0, report,
          second, edit, edits, sql>>

\* the state outside the DAG and its first sorter
others == <<second, edit, edits, sql>>

--------------------------------------------------------------------------
\* TopologicalSorter.__init__

\* (variants of the code used to test the properties are named X_Variant and
\* stand right before the definition X they vary)

\* while not children <= relevant: relevant.update(children); children = {...}
RECURSIVE StartClosure(_, _, _)
StartClosure(edges, relevant, children) ==
    IF children \subseteq relevant THEN relevant
    ELSE LET r == relevant \cup children
         IN  StartClosure(edges, r, {e[2] : e \in {d \in edges : d[1] \in r}})

FilterStart_BySink(edges, st) ==
    IF st = {} THEN edges
    ELSE LET relevant == StartClosure(edges, {}, st)
         IN  {e \in edges : e[2] \in relevant}
\* if start: ... edges = {edge for edge in edges if edge[0] in relevant}
FilterStart(edges, st) ==
    IF st = {} THEN edges
    ELSE LET relevant == StartClosure(edges, {}, st)
         IN  {e \in edges : e[1] \in relevant}

EndpointClosure_NoLoop(edges, relevant, parents) == relevant \cup parents
\* while not parents <= relevant: relevant.update(parents); parents = {...}
RECURSIVE EndpointClosure(_, _, _)
EndpointClosure(edges, relevant, parents) ==
    IF parents \subseteq relevant THEN relevant
    ELSE LET r == relevant \cup parents
         IN  EndpointClosure(edges, r, {e[1] : e \in {d \in edges : d[2] \in r}})

FilterEndpoints_BySource(edges, en) ==
    IF en = {} THEN edges
    ELSE LET relevant == EndpointClosure(edges, {}, en)
         IN  {e \in edges : e[1] \in relevant}
\* if endpoints: ... edges = {edge for edge in edges if edge[1] in relevant}
FilterEndpoints(edges, en) ==
    IF en = {} THEN edges
    ELSE LET relevant == EndpointClosure(edges, {}, en)
         IN  {e \in edges : e[2] \in relevant}

TopologicalSorterInit_StartOnly(edges, st, en) ==
    IF st # {} THEN FilterStart(edges, st) ELSE FilterEndpoints(edges, en)
\* self.graph = set(edges), after the start filter and then the endpoint filter
TopologicalSorterInit(edges, st, en) ==
    FilterEndpoints(FilterStart(edges, st), en)

--------------------------------------------------------------------------
\* TopologicalSorter.__iter__ and __reversed__: the set computations

NodesWithNoIncomingEdges_AllSources(g) == {e[1] : e \in g}
\* {source for source, _ in graph if source not in {s for _, s in graph}}
NodesWithNoIncomingEdges(g) ==
    {e[1] : e \in {d \in g : d[1] \notin {x[2] : x \in g}}}

\* {edge for edge in self.graph if edge[0] in nodes_with_no_incoming_edges}
OutgoingEdges(g, rdy) == {e \in g : e[1] \in rdy}

NextNoIncoming_AllSinks(g, outgoing) == {e[2] : e \in outgoing}
\* {sink for _, sink in outgoing_edges if all(s != sink for _, s in self.graph)}
NextNoIncoming(g, outgoing) ==
    {e[2] : e \in {d \in outgoing : \A x \in g : x[2] # d[2]}}

\* {sink for _, sink in graph if sink not in {s for s, _ in graph}}
NodesWithNoOutgoingEdges(g) ==
    {e[2] : e \in {d \in g : d[2] \notin {x[1] : x \in g}}}

\* {edge for edge in self.graph if edge[1] in nodes_with_no_outgoing_edges}
IncomingEdges(g, rdy) == {e \in g : e[2] \in rdy}

NextNoOutgoing_AllSources(g, incoming) == {e[1] : e \in incoming}
\* {source for source, _ in incoming_edges if all(s != source for s, _ in self.graph)}
NextNoOutgoing(g, incoming) ==
    {e[1] : e \in {d \in incoming : \A x \in g : x[1] # d[1]}}

--------------------------------------------------------------------------
\* CycleError.__str__

SetMax(S) == CHOOSE m \in S : \A x \in S : x <= m
SetMin(S) == CHOOSE m \in S : \A x \in S : m <= x

\* dict(sorted(members)): for each source the last pair in sorted order wins,
\* that is the greatest sink
SinksDict(members) ==
    [s \in {e[1] : e \in members} |-> SetMax({e[2] : e \in {d \in members : d[1] = s}})]

\* while node != first: cycle.append(node); node = sinks[node]
\* sinks[node] raises KeyError when node is no source; a walk that has grown
\* longer than the number of nodes has repeated a node other than first and,
\* the mapping being a function, never comes back to first: the loop hangs.
RECURSIVE CycleWalk(_, _, _, _, _)
CycleWalk(sinks, first, node, cycle, limit) ==
    IF node = first THEN [kind |-> "ok", cycle |-> cycle]
    ELSE IF node \notin DOMAIN sinks THEN [kind |-> "KeyError", cycle |-> Append(cycle, node)]
    ELSE IF Len(cycle) >= limit THEN [kind |-> "hang", cycle |-> Append(cycle, node)]
    ELSE CycleWalk(sinks, first, sinks[node], Append(cycle, node), limit)

CycleErrorStr(members) ==
    LET nodes == {e[1] : e \in members}
        sinks == SinksDict(members)
        first == SetMin(nodes)
        limit == Cardinality(nodes \cup {e[2] : e \in members})
    IN  CycleWalk(sinks, first, sinks[first], <<first>>, limit)

NoReport == [kind |-> "none", cycle |-> <<>>]

\* no second topsort() call yet
NoSorter == [pc |-> "idle", dir |-> "none", graph |-> {}, ready |-> {},
             gens |-> <<>>, graph0 |-> {}]

\* no discard()/remove() since the last add()
NoEdit == [op |-> "none", edge |-> <<>>, before |-> {}, err |-> "none"]

\* no SqliteDAG constructed
NoSql == [name |-> "none", table |-> {}, working |-> [edges |-> {}, leaves |-> {}],
          pc |-> "closed", gens |-> <<>>, cycle |-> {}, snapshot |-> {}]

--------------------------------------------------------------------------
\* State machine

Init ==
    /\ dag = {}
    /\ pc = "idle"
    /\ dir = "none"
    /\ graph = {}
    /\ ready = {}
    /\ gens = <<>>
    /\ start = {}
    /\ endpoints = {}
    /\ snapshot = {}
    /\ graph0 = {}
    /\ report = NoReport
    /\ second = NoSorter
    /\ edit = NoEdit
    /\ edits = 0
    /\ sql = NoSql

\* DAG.add(edge): set.add
Add(e) ==
    /\ pc = "idle"
    /\ Cardinality(dag \cup {e}) <= MaxEdges
    /\ dag' = dag \cup {e}
    /\ edit' = NoEdit
    /\ UNCHANGED <<pc, dir, graph, ready, gens, start, endpoints, snapshot, graph0, report>>
    /\ UNCHANGED <<second, edits, sql>>

\* DAG.topsort(*start, endpoints=...): return TopologicalSorter(self, start, endpoints)
Topsort(st, en) ==
    /\ pc = "idle"
    /\ pc' = "new"
    /\ start' = st
    /\ endpoints' = en
    /\ snapshot' = dag
    /\ graph' = TopologicalSorterInit(dag, st, en)
    /\ graph0' = graph'
    /\ edit' = NoEdit
    /\ UNCHANGED <<dag, dir, ready, gens, report>>
    /\ UNCHANGED <<second, edits, sql>>

\* self.graph = set(edges): whether self.graph is the very set object the
\* caller passed (the DAG).  set(...) always builds a new set, so it never is.
\* (Without the copy it would be whenever no filter rebinds edges.)
GraphIsCallerSet_NoCopy(st, en) == st = {} /\ en = {}
GraphIsCallerSet(st, en) == FALSE

\* the first sorter's graph is the DAG object; the second sorter's (built
\* without starts or endpoints) is
FirstShares == pc # "idle" /\ GraphIsCallerSet(start, endpoints)
SecondShares == second.pc # "idle" /\ GraphIsCallerSet({}, {})

\* if self.graph: raise CycleError(self.graph)   (else the generator returns)
EndState_NeverRaises(g) == "done"
EndState(g) == IF g # {} THEN "raised" ELSE "done"

\* What the generator does once its next set of ready nodes is computed:
\* "while ready: yield ready", else "if self.graph: raise CycleError(self.graph)"
YieldOrEnd(rdy, g, suspended) ==
    /\ ready' = rdy
    /\ graph' = g
    /\ dag' = IF FirstShares THEN g ELSE dag
    /\ second' = IF FirstShares /\ SecondShares
                   THEN [second EXCEPT !.graph = g] ELSE second
    /\ IF rdy # {}
         THEN /\ gens' = Append(gens, rdy)
              /\ pc' = suspended
         ELSE /\ gens' = gens
              /\ pc' = EndState(g)

\* First next() on iter(sorter): runs __iter__ up to its first yield or its end
IterStart ==
    /\ pc = "new"
    /\ dir' = "iter"
    /\ YieldOrEnd(NodesWithNoIncomingEdges(graph), graph, "fwd")
    /\ UNCHANGED <<start, endpoints, snapshot, graph0, report>>
    /\ UNCHANGED <<edit, edits, sql>>

\* A later next(): resumes after the yield, peels, runs to the next yield or end
IterNext ==
    /\ pc = "fwd"
    /\ LET outgoing == OutgoingEdges(graph, ready)
           g == graph \ outgoing
       IN  YieldOrEnd(NextNoIncoming(g, outgoing), g, "fwd")
    /\ UNCHANGED <<dir, start, endpoints, snapshot, graph0, report>>
    /\ UNCHANGED <<edit, edits, sql>>

\* First next() on reversed(sorter)
ReversedStart ==
    /\ pc = "new"
    /\ dir' = "reversed"
    /\ YieldOrEnd(NodesWithNoOutgoingEdges(graph), graph, "rev")
    /\ UNCHANGED <<start, endpoints, snapshot, graph0, report>>
    /\ UNCHANGED <<edit, edits, sql>>

\* A later next() on reversed(sorter)
ReversedNext ==
    /\ pc = "rev"
    /\ LET incoming == IncomingEdges(graph, ready)
           g == graph \ incoming
       IN  YieldOrEnd(NextNoOutgoing(g, incoming), g, "rev")
    /\ UNCHANGED <<dir, start, endpoints, snapshot, graph0, report>>
    /\ UNCHANGED <<edit, edits, sql>>

\* str(error) on the CycleError(self.graph) that was raised
Str ==
    /\ pc = "raised"
    /\ pc' = "printed"
    /\ report' = CycleErrorStr(graph)
    /\ UNCHANGED <<dag, dir, graph, ready, gens, start, endpoints, snapshot, graph0>>
    /\ UNCHANGED others

Next ==
    \/ \E e \in Edges : Add(e)
    \/ \E st \in Filters, en \in Filters : Topsort(st, en)
    \/ IterStart
    \/ IterNext
    \/ ReversedStart
    \/ ReversedNext
    \/ Str

Spec == Init /\ [][Next]_vars

\* The consumer of a sort keeps pulling: a pending next() on the generator is
\* eventually made.
Pull == IterStart \/ IterNext \/ ReversedStart \/ ReversedNext

\* Building and running sorts, the consumer never giving up
NextSort ==
    \/ \E e \in Edges : Add(e)
    \/ \E st \in Filters, en \in Filters : Topsort(st, en)
    \/ Pull

FairSpec == Init /\ [][NextSort]_vars /\ WF_vars(Pull)

--------------------------------------------------------------------------
\* Removing edges from the DAG (DAG is a set: discard and remove are set's)

\* set.remove(elem): raises KeyError when elem is not in the set
SetRemove(S, e) ==
    IF e \in S THEN [set |-> S \ {e}, err |-> "none"]
    ELSE [set |-> S, err |-> "KeyError"]

SetDiscard_AsRemove(S, e) == SetRemove(S, e)
\* set.discard(elem): removes elem if it is present
SetDiscard(S, e) == [set |-> S \ {e}, err |-> "none"]

\* graph.discard(edge)
Discard(e) ==
    /\ pc = "idle"
    /\ LET r == SetDiscard(dag, e)
       IN  /\ dag' = r.set
           /\ edit' = [op |-> "discard", edge |-> e, before |-> dag, err |-> r.err]
    /\ UNCHANGED <<pc, dir, graph, ready, gens, start, endpoints, snapshot, graph0, report>>
    /\ UNCHANGED <<second, edits, sql>>

\* graph.remove(edge)
Remove(e) ==
    /\ pc = "idle"
    /\ LET r == SetRemove(dag, e)
       IN  /\ dag' = r.set
           /\ edit' = [op |-> "remove", edge |-> e, before |-> dag, err |-> r.err]
    /\ UNCHANGED <<pc, dir, graph, ready, gens, start, endpoints, snapshot, graph0, report>>
    /\ UNCHANGED <<second, edits, sql>>

NextEdit ==
    \/ \E e \in Edges : Add(e)
    \/ \E e \in Edges : Discard(e)
    \/ \E e \in Edges : Remove(e)

SpecEdit == Init /\ [][NextEdit]_vars

--------------------------------------------------------------------------
\* Two sorters on one DAG: a second topsort() call (without starts or
\* endpoints) while the first sorter exists, and the second sorter's steps.

\* graph.topsort() once more: return TopologicalSorter(self, (), ())
Topsort2 ==
    /\ pc # "idle"
    /\ second.pc = "idle"
    /\ LET g == TopologicalSorterInit(dag, {}, {})
       IN  second' = [NoSorter EXCEPT !.pc = "new", !.graph = g, !.graph0 = g]
    /\ UNCHANGED <<dag, pc, dir, graph, ready, gens, start, endpoints, snapshot, graph0, report>>
    /\ UNCHANGED <<edit, edits, sql>>

\* "while ready: yield ready", else "if self.graph: raise CycleError(self.graph)",
\* in the second sorter's generator
YieldOrEnd2(rdy, g, suspended, d) ==
    /\ second' = [second EXCEPT
                     !.dir = d,
                     !.ready = rdy,
                     !.graph = g,
                     !.gens = IF rdy # {} THEN Append(@, rdy) ELSE @,
                     !.pc = IF rdy # {} THEN suspended ELSE EndState(g)]
    /\ dag' = IF SecondShares THEN g ELSE dag
    /\ graph' = IF FirstShares /\ SecondShares THEN g ELSE graph
    /\ UNCHANGED <<pc, dir, ready, gens, start, endpoints, snapshot, graph0, report>>
    /\ UNCHANGED <<edit, edits, sql>>

\* First next() on iter(second sorter)
Iter2Start ==
    /\ second.pc = "new"
    /\ YieldOrEnd2(NodesWithNoIncomingEdges(second.graph), second.graph, "fwd", "iter")

\* A later next() on iter(second sorter)
Iter2Next ==
    /\ second.pc = "fwd"
    /\ LET outgoing == OutgoingEdges(second.graph, second.ready)
           g == second.graph \ outgoing
       IN  YieldOrEnd2(NextNoIncoming(g, outgoing), g, "fwd", "iter")

\* First next() on reversed(second sorter)
Reversed2Start ==
    /\ second.pc = "new"
    /\ YieldOrEnd2(NodesWithNoOutgoingEdges(second.graph), second.graph, "rev", "reversed")

\* A later next() on reversed(second sorter)
Reversed2Next ==
    /\ second.pc = "rev"
    /\ LET incoming == IncomingEdges(second.graph, second.ready)
           g == second.graph \ incoming
       IN  YieldOrEnd2(NextNoOutgoing(g, incoming), g, "rev", "reversed")

NextTwo ==
    \/ \E e \in Edges : Add(e)
    \/ \E st \in Filters : Topsort(st, {})
    \/ Topsort2
    \/ IterStart
    \/ IterNext
    \/ ReversedStart
    \/ ReversedNext
    \/ Iter2Start
    \/ Iter2Next
    \/ Reversed2Start
    \/ Reversed2Next

SpecTwo == Init /\ [][NextTwo]_vars

--------------------------------------------------------------------------
\* A whole sort, run to its end without interruption

\* __iter__ from "while nodes_with_no_incoming_edges:" to its end
RECURSIVE IterLoop(_, _, _)
IterLoop(g, rdy, yielded) ==
    IF rdy = {} THEN [gens |-> yielded, end |-> EndState(g), graph |-> g]
    ELSE LET outgoing == OutgoingEdges(g, rdy)
             g2 == g \ outgoing
         IN  IterLoop(g2, NextNoIncoming(g2, outgoing), Append(yielded, rdy))

\* list(iter(sorter)): the generations, how it ended, what is left of self.graph
IterAll(g) == IterLoop(g, NodesWithNoIncomingEdges(g), <<>>)

\* __reversed__ from "while nodes_with_no_outgoing_edges:" to its end
RECURSIVE ReversedLoop(_, _, _)
ReversedLoop(g, rdy, yielded) ==
    IF rdy = {} THEN [gens |-> yielded, end |-> EndState(g), graph |-> g]
    ELSE LET incoming == IncomingEdges(g, rdy)
             g2 == g \ incoming
         IN  ReversedLoop(g2, NextNoOutgoing(g2, incoming), Append(yielded, rdy))

\* list(reversed(sorter))
ReversedAll(g) == ReversedLoop(g, NodesWithNoOutgoingEdges(g), <<>>)

\* the sort in direction d of the DAG edges E with starts st and endpoints en
SortAlone(d, E, st, en) ==
    IF d = "iter" THEN IterAll(TopologicalSorterInit(E, st, en))
    ELSE ReversedAll(TopologicalSorterInit(E, st, en))

--------------------------------------------------------------------------
\* Graph notions the properties are stated in

NodesOf(E) == {e[1] : e \in E} \cup {e[2] : e \in E}

\* R extended by the pairs joined through the intermediate nodes K, one
\* intermediate node at a time (Warshall)
RECURSIVE Through(_, _)
Through(R, K) ==
    IF K = {} THEN R
    ELSE LET k == CHOOSE x \in K : TRUE
             into == {r[1] : r \in {q \in R : q[2] = k}}
             outof == {r[2] : r \in {q \in R : q[1] = k}}
         IN  Through(R \cup (into \X outof), K \ {k})

\* The pairs <<x, y>> joined by a path of one or more edges of E
TransitiveClosure(E) == Through(E, NodesOf(E))

\* E contains a directed cycle (a self-loop counts)
HasCycle(E) == \E e \in TransitiveClosure(E) : e[1] = e[2]

Yielded == UNION {gens[i] : i \in DOMAIN gens}
GenIndex(n) == CHOOSE i \in DOMAIN gens : n \in gens[i]
YieldedOnce(n) == Cardinality({i \in DOMAIN gens : n \in gens[i]}) = 1

--------------------------------------------------------------------------
\* C1: forward-sorting an acyclic edge set without starts or endpoints never
\* fails, yields only nodes of the edge set, each at most once and every one
\* of them by the time the sort is exhausted, and yields the source of every
\* edge in a strictly earlier generation than its sink.
C1_ForwardSortOrdersAcyclic ==
    (dir = "iter" /\ start = {} /\ endpoints = {} /\ ~HasCycle(snapshot)) =>
        /\ pc \notin {"raised", "printed"}
        /\ Yielded \subseteq NodesOf(snapshot)
        /\ \A n \in Yielded : YieldedOnce(n)
        /\ \A e \in snapshot : e[2] \in Yielded =>
               e[1] \in Yielded /\ GenIndex(e[1]) < GenIndex(e[2])
        /\ pc = "done" => Yielded = NodesOf(snapshot)

C1_Witness ==
    /\ pc = "done" /\ dir = "iter" /\ start = {} /\ endpoints = {}
    /\ ~HasCycle(snapshot)
    /\ Len(gens) >= 3
    /\ Cardinality(snapshot) >= 3

\* C2: no generation yielded by the forward sort, whatever the edge set, the
\* starts and the endpoints, holds both ends of an edge of the unfiltered
\* edge set topsort() was called on.
C2_GenerationsIndependent ==
    dir = "iter" =>
        \A i \in DOMAIN gens : \A e \in snapshot :
            ~(e[1] \in gens[i] /\ e[2] \in gens[i])

C2_Witness ==
    /\ dir = "iter" /\ pc = "raised"
    /\ \E i \in DOMAIN gens : Cardinality(gens[i]) >= 2
    /\ \E n \in Nodes : <<n, n>> \in snapshot

\* C3: a sort that has ended, forward or reverse, ended with CycleError if
\* the filtered edge set has a directed cycle and by exhaustion if it has
\* none; CycleError comes from a sort only.
C3_CycleErrorIffCycle ==
    /\ pc \in {"done", "raised", "printed"} =>
           /\ dir \in {"iter", "reversed"}
           /\ (pc # "done") <=> HasCycle(graph0)
    /\ dir = "none" => pc \in {"idle", "new"}

C3_Witness ==
    /\ pc = "done" /\ dir = "reversed"
    /\ HasCycle(snapshot)
    /\ graph0 # {}

\* C4: the cycle reported by str(CycleError) is a closed walk of the residual
\* edges: a sequence is reported, each consecutive pair of it is a residual
\* edge, and it closes (the report lists each node once, so the walk is read
\* back to its first node).
C4_ReportIsClosedWalk ==
    pc = "printed" =>
        /\ report.kind = "ok"
        /\ LET c == Append(report.cycle, report.cycle[1])
           IN  \A i \in 1..(Len(c) - 1) : <<c[i], c[i + 1]>> \in graph

\* The nodes of E that lie on a directed cycle of E, or downstream of one
Affected(E) ==
    LET tc == TransitiveClosure(E)
    IN  {n \in NodesOf(E) : \E c \in NodesOf(E) :
            <<c, c>> \in tc /\ (c = n \/ <<c, n>> \in tc)}

\* C5: when the filtered edge set has a cycle, the forward sort never yields a
\* node on or downstream of a cycle, yields every node only after all its
\* predecessors, never ends by exhaustion, and when it fails has yielded every
\* unaffected node and is stuck: the residual edges are exactly those leaving
\* an affected node and every residual node has an incoming residual edge.
C5_CyclicForwardYieldsUnaffectedThenFails ==
    (dir = "iter" /\ HasCycle(graph0)) =>
        LET affected == Affected(graph0)
        IN  /\ Yielded \subseteq NodesOf(graph0) \ affected
            /\ \A n \in Yielded : YieldedOnce(n)
            /\ \A e \in graph0 : e[2] \in Yielded =>
                   e[1] \in Yielded /\ GenIndex(e[1]) < GenIndex(e[2])
            /\ pc # "done"
            /\ pc \in {"raised", "printed"} =>
                   /\ Yielded = NodesOf(graph0) \ affected
                   /\ graph = {e \in graph0 : e[1] \in affected}
                   /\ graph # {}
                   /\ \A n \in NodesOf(graph) : \E e \in graph : e[2] = n

C5_Witness ==
    /\ dir = "iter" /\ pc = "raised"
    /\ Len(gens) >= 2
    /\ Cardinality(NodesOf(graph)) < Cardinality(NodesOf(graph0))

\* The nodes reachable from a node of S by zero or more edges of E
ReachableFrom(E, S) ==
    LET tc == TransitiveClosure(E)
    IN  {n \in Nodes : \E s \in S : s = n \/ <<s, n>> \in tc}

\* The nodes from which a node of P is reachable by zero or more edges of E
LeadingTo(E, P) ==
    LET tc == TransitiveClosure(E)
    IN  {n \in Nodes : \E q \in P : n = q \/ <<n, q>> \in tc}

\* C6: with starts S and no endpoints the working edge set is the set of
\* edges whose source is reachable from S; no node unreachable from S is ever
\* yielded, and a forward sort of an acyclic edge set has, once exhausted,
\* yielded exactly the reachable nodes that bear a working edge.
C6_StartsKeepEdgesFromReachable ==
    (pc # "idle" /\ start # {} /\ endpoints = {}) =>
        LET R == ReachableFrom(snapshot, start)
        IN  /\ graph0 = {e \in snapshot : e[1] \in R}
            /\ Yielded \subseteq R
            /\ (dir = "iter" /\ pc = "done" /\ ~HasCycle(snapshot)) =>
                   Yielded = {n \in R : \E e \in graph0 : n = e[1] \/ n = e[2]}

C6_Witness ==
    /\ pc = "done" /\ dir = "iter" /\ start # {} /\ endpoints = {}
    /\ ~HasCycle(snapshot)
    /\ Len(gens) >= 2
    /\ graph0 # snapshot

\* C7: with endpoints P and no starts the working edge set is the set of edges
\* whose sink leads to P; no node that does not lead to P is ever yielded, and
\* a forward sort of an acyclic edge set has, once exhausted, yielded exactly
\* the nodes leading to P that bear a working edge.
C7_EndpointsKeepEdgesLeadingTo ==
    (pc # "idle" /\ start = {} /\ endpoints # {}) =>
        LET R == LeadingTo(snapshot, endpoints)
        IN  /\ graph0 = {e \in snapshot : e[2] \in R}
            /\ Yielded \subseteq R
            /\ (dir = "iter" /\ pc = "done" /\ ~HasCycle(snapshot)) =>
                   Yielded = {n \in R : \E e \in graph0 : n = e[1] \/ n = e[2]}

C7_Witness ==
    /\ pc = "done" /\ dir = "iter" /\ start = {} /\ endpoints # {}
    /\ ~HasCycle(snapshot)
    /\ Len(gens) >= 2
    /\ graph0 # snapshot

\* C8: with both starts S and endpoints P the working edge set is the set of
\* edges lying on a path from a node of S to a node of P: the edges whose
\* source is reachable from S and whose sink leads to P.
C8_BothFiltersKeepEdgesOnPaths ==
    (pc # "idle" /\ start # {} /\ endpoints # {}) =>
        LET fromS == ReachableFrom(snapshot, start)
            toP == LeadingTo(snapshot, endpoints)
        IN  graph0 = {e \in snapshot : e[1] \in fromS /\ e[2] \in toP}

C8_Witness ==
    /\ pc = "new" /\ start # {} /\ endpoints # {}
    /\ Cardinality(graph0) >= 2
    /\ graph0 # snapshot
    /\ graph0 # FilterStart(snapshot, start)
    /\ start \cap endpoints = {}

\* C9 as stated: for a node n without a self-loop, the sort with starts {n}
\* and endpoints {n} has an empty working edge set, yields nothing and raises
\* no error.
C9_SameStartAndEndpointNoSelfLoop ==
    \A n \in start :
        (pc # "idle" /\ start = {n} /\ endpoints = {n} /\ <<n, n>> \notin snapshot) =>
            /\ graph0 = {}
            /\ gens = <<>>
            /\ pc \in {"new", "done"}

\* C9 amended: for a node n that lies on no directed cycle of the edge set,
\* the sort with starts {n} and endpoints {n} has an empty working edge set,
\* yields nothing and raises no error.
C9_SameStartAndEndpointOffCycle ==
    \A n \in start :
        (pc # "idle" /\ start = {n} /\ endpoints = {n}
            /\ <<n, n>> \notin TransitiveClosure(snapshot)) =>
            /\ graph0 = {}
            /\ gens = <<>>
            /\ pc \in {"new", "done"}

C9_Witness ==
    \E n \in Nodes :
        /\ pc = "done" /\ start = {n} /\ endpoints = {n}
        /\ <<n, n>> \notin TransitiveClosure(snapshot)
        /\ \E e \in snapshot : e[1] = n
        /\ \E e \in snapshot : e[2] = n

\* C10: reverse-sorting an acyclic edge set never fails, yields only nodes of
\* the filtered edge set, each at most once and every one of them by the time
\* the sort is exhausted, yields the sink of every filtered edge in a strictly
\* earlier generation than its source, and the generation just yielded holds
\* no node with an outgoing edge left in the working set.
C10_ReverseSortOrdersAcyclic ==
    (dir = "reversed" /\ ~HasCycle(snapshot)) =>
        /\ pc \notin {"raised", "printed"}
        /\ Yielded \subseteq NodesOf(graph0)
        /\ \A n \in Yielded : YieldedOnce(n)
        /\ \A e \in graph0 : e[1] \in Yielded =>
               e[2] \in Yielded /\ GenIndex(e[2]) < GenIndex(e[1])
        /\ pc = "done" => Yielded = NodesOf(graph0)
        /\ pc = "rev" => \A n \in gens[Len(gens)] : \A e \in graph : e[1] # n

C10_Witness ==
    /\ pc = "done" /\ dir = "reversed"
    /\ ~HasCycle(snapshot)
    /\ start # {}
    /\ Len(gens) >= 3

--------------------------------------------------------------------------
\* C11: a sort never changes the caller's graph: in every state after
\* topsort() was called (sorter new, part-way, exhausted or failed, forward or
\* reverse, with or without filters) the DAG's edge set is what it was at the
\* call; only the sorter's working copy loses edges.
C11_SortLeavesCallerGraph ==
    pc # "idle" =>
        /\ dag = snapshot
        /\ graph \subseteq graph0

C11_Witness ==
    /\ pc \in {"done", "raised"}
    /\ start = {} /\ endpoints = {}
    /\ graph # graph0
    /\ dag = snapshot /\ dag # {}

--------------------------------------------------------------------------
IsPrefix(a, b) == Len(a) <= Len(b) /\ \A i \in DOMAIN a : a[i] = b[i]

\* A sorter at position p, in direction d, that has yielded gs, is where a
\* sort of the edges E (starts st, endpoints en) running alone would be: gs
\* is a prefix of the generations of that sort, and once it has ended it has
\* yielded all of them and ended the same way.
AsAlone(p, d, gs, E, st, en) ==
    d # "none" =>
        LET alone == SortAlone(d, E, st, en)
        IN  /\ IsPrefix(gs, alone.gens)
            /\ p \in {"done", "raised", "printed"} =>
                   /\ gs = alone.gens
                   /\ alone.end = IF p = "done" THEN "done" ELSE "raised"

\* C12: two sorters from two topsort() calls on the same DAG do not
\* interfere: under every interleaving of their steps each yields the
\* generations, and ends the way, it would when run alone on that DAG.
C12_TwoSortsDoNotInterfere ==
    second.pc # "idle" =>
        /\ AsAlone(pc, dir, gens, snapshot, start, endpoints)
        /\ AsAlone(second.pc, second.dir, second.gens, snapshot, {}, {})

C12_Witness ==
    /\ pc = "done" /\ dir = "iter" /\ Len(gens) >= 2
    /\ second.pc = "raised" /\ second.dir = "reversed" /\ Len(second.gens) >= 2

--------------------------------------------------------------------------
\* C13: removing (discard) an edge that is not in the graph is a no-op: no
\* error is raised and the edge set is what it was, whatever the graph held.
C13_DiscardAbsentIsNoOp ==
    (edit.op = "discard" /\ edit.edge \notin edit.before) =>
        /\ edit.err = "none"
        /\ dag = edit.before

C13_Witness ==
    /\ edit.op = "discard"
    /\ edit.edge \notin edit.before
    /\ edit.before # {}
    /\ dag = edit.before

--------------------------------------------------------------------------
\* C14: str(CycleError) ends, for every residual edge set a sort can raise
\* with, without any other error and after at most as many steps as the
\* residual edge set has nodes.
C14_StrTerminatesWithinNodeCount ==
    pc = "printed" =>
        /\ report.kind = "ok"
        /\ Len(report.cycle) <= Cardinality(NodesOf(graph))

\* C15: whenever a sort raises CycleError, every node of the residual edge
\* set has an incoming and an outgoing edge within the residual set.
C15_ResidualNodesMidCycle ==
    pc \in {"raised", "printed"} =>
        \A n \in NodesOf(graph) :
            /\ \E e \in graph : e[2] = n
            /\ \E e \in graph : e[1] = n

--------------------------------------------------------------------------
\* The nodes of the working set g that are ready in direction d
ReadyIn(d, g) ==
    IF d = "iter" THEN {n \in NodesOf(g) : \A e \in g : e[2] # n}
    ELSE {n \in NodesOf(g) : \A e \in g : e[1] # n}

C16_Bounded ==
    /\ graph \subseteq graph0
    /\ Len(gens) <= Cardinality(NodesOf(graph0))
    /\ pc = "done" => graph = {}
    /\ pc \in {"raised", "printed"} => graph # {} /\ ReadyIn(dir, graph) = {}

\* C16: a sort whose consumer keeps pulling reaches a terminal state: it
\* yields at most one generation per node, its working set only shrinks, it
\* ends either exhausted with an empty working set or in CycleError with a
\* non-empty working set in which no node is ready, and it does end.
C16_SortTerminates ==
    /\ []C16_Bounded
    /\ [][pc # "idle" => graph' \subseteq graph]_vars
    /\ (pc = "new") ~> (pc \in {"done", "raised"})

C16_Witness ==
    /\ pc = "raised" /\ dir = "reversed"
    /\ Len(gens) >= 2
    /\ start # {}

--------------------------------------------------------------------------
\* The number of edges of the longest path of E that ends in n (E acyclic)
RECURSIVE LongestIncomingPath(_, _)
LongestIncomingPath(E, n) ==
    LET preds == {e[1] : e \in {d \in E : d[2] = n}}
    IN  IF preds = {} THEN 0
        ELSE 1 + SetMax({LongestIncomingPath(E, m) : m \in preds})

\* The nodes yielded before the latest generation
YieldedBefore == UNION {gens[i] : i \in 1..(Len(gens) - 1)}

\* C17: the generation the forward sort has just yielded is exactly the set
\* of nodes of the filtered edge set that were not yielded before and have no
\* incoming edge left in the working set; on an acyclic filtered edge set the
\* k-th generation (from 0) is the set of nodes whose longest incoming path
\* has k edges.
C17_GenerationsAreMaximal ==
    dir = "iter" =>
        /\ pc = "fwd" =>
               gens[Len(gens)] =
                   {n \in NodesOf(graph0) \ YieldedBefore : \A e \in graph : e[2] # n}
        /\ ~HasCycle(graph0) =>
               \A i \in DOMAIN gens :
                   gens[i] = {n \in NodesOf(graph0) : LongestIncomingPath(graph0, n) = i - 1}

C17_Witness ==
    /\ dir = "iter" /\ pc = "fwd"
    /\ ~HasCycle(graph0)
    /\ Len(gens) >= 2
    /\ Cardinality(gens[Len(gens)]) >= 2

--------------------------------------------------------------------------
\* The forward sort with ready recomputed from scratch at every round by the
\* rule of the first step (sources of a current edge that are the sink of no
\* current edge), on working set g with generations gs already yielded
RECURSIVE ScratchLoop(_, _)
ScratchLoop(g, gs) ==
    LET rdy == NodesWithNoIncomingEdges(g)
    IN  IF rdy = {}
        THEN [gens |-> gs, end |-> EndState(g), graph |-> g]
        ELSE ScratchLoop(g \ OutgoingEdges(g, rdy), Append(gs, rdy))

ScratchAll(E) == ScratchLoop(E, <<>>)

\* The nodes of R that are still the source of an edge of g
StillSources(R, g) == {n \in R : \E e \in g : e[1] = n}

\* C18 (as stated): at every round of the forward sort the generation computed
\* incrementally equals the one recomputed from scratch on the working set,
\* and both strategies give the same sequence of generations.
C18_IncrementalEqualsFromScratch ==
    dir = "iter" =>
        /\ pc = "fwd" => ready = NodesWithNoIncomingEdges(graph)
        /\ pc \in {"done", "raised"} => ScratchAll(graph0).gens = gens

\* C18 (amended): at every round the from-scratch rule gives exactly the
\* nodes of the incremental generation that are still the source of a current
\* edge, so it leaves out the nodes without outgoing edges; the working sets
\* of both strategies agree, and both end in the same outcome with the same
\* residual edge set.
C18_FromScratchIsSourcesOfIncremental ==
    dir = "iter" =>
        /\ pc = "fwd" =>
               NodesWithNoIncomingEdges(graph) = StillSources(ready, graph)
        /\ pc \in {"done", "raised"} =>
               LET s == ScratchAll(graph0)
               IN  /\ NodesWithNoIncomingEdges(graph) = {}
                   /\ s.end = pc
                   /\ s.graph = graph
                   /\ Len(s.gens) <= Len(gens)
                   /\ \A i \in DOMAIN s.gens :
                          s.gens[i] = StillSources(gens[i], graph0)
                   /\ \A i \in DOMAIN gens :
                          i > Len(s.gens) => StillSources(gens[i], graph0) = {}

C18_Witness ==
    /\ dir = "iter" /\ pc = "done"
    /\ Len(gens) >= 3
    /\ Len(ScratchAll(graph0).gens) >= 2
    /\ ScratchAll(graph0).gens # gens

--------------------------------------------------------------------------
\* Edits of the DAG while a sorter exists: after topsort() returned, before
\* the first generation is pulled or between two generations.

MaxEdits == 1

\* graph.add(edge) while the sorter is suspended
AddDuringSort(e) ==
    /\ pc \in {"new", "fwd", "rev"}
    /\ edits < MaxEdits
    /\ Cardinality(dag \cup {e}) <= MaxEdges
    /\ dag' = dag \cup {e}
    /\ graph' = IF FirstShares THEN dag' ELSE graph
    /\ edits' = edits + 1
    /\ UNCHANGED <<pc, dir, ready, gens, start, endpoints, snapshot, graph0, report>>
    /\ UNCHANGED <<second, edit, sql>>

\* graph.discard(edge) while the sorter is suspended
DiscardDuringSort(e) ==
    /\ pc \in {"new", "fwd", "rev"}
    /\ edits < MaxEdits
    /\ dag' = SetDiscard(dag, e).set
    /\ graph' = IF FirstShares THEN dag' ELSE graph
    /\ edits' = edits + 1
    /\ UNCHANGED <<pc, dir, ready, gens, start, endpoints, snapshot, graph0, report>>
    /\ UNCHANGED <<second, edit, sql>>

NextMut ==
    \/ \E e \in Edges : Add(e)
    \/ Topsort({}, {})
    \/ \E e \in Edges : AddDuringSort(e)
    \/ \E e \in Edges : DiscardDuringSort(e)
    \/ IterStart
    \/ IterNext
    \/ ReversedStart
    \/ ReversedNext

SpecMut == Init /\ [][NextMut]_vars

\* C19: a sort works on the edges the DAG had when topsort() was called:
\* whatever edges are added to or discarded from the DAG afterwards, before
\* the first pull or between generations, the sorter yields the generations,
\* and ends the way, a sort of the edge set at the call does.
C19_SortUsesSnapshot ==
    pc # "idle" =>
        /\ graph0 = TopologicalSorterInit(snapshot, start, endpoints)
        /\ AsAlone(pc, dir, gens, snapshot, start, endpoints)

C19_Witness ==
    /\ pc \in {"done", "raised"}
    /\ edits >= 1
    /\ dag # snapshot
    /\ Len(gens) >= 2
    /\ SortAlone(dir, dag, start, endpoints).gens # gens

--------------------------------------------------------------------------
\* SqliteDAG (src/dag/sqlite.py): the edge relation in a table of a database
\* of its own, and topsort() as a generator over the temporary table
\* WORKING_DAG.  Once a sort was started, edits counts the later add() and
\* discard() calls, at most MaxEdits.  The rows of WORKING_DAG are held as the edges (leaf = 0) and
\* the sources of the fake rows (leaf = 1, sink NULL).  sql.pc is the position
\* of the latest topsort() generator, or the message of the
\* sqlite3.OperationalError that ended it; sql.snapshot is the table at its
\* first next().

TableNames == {"DAG", "edges"}

NoSuchTable == "no such table: DAG"

AlreadyExists == "table WORKING_DAG already exists"

\* WORKING_DAG is there: a generator is suspended at its yield, or one died
\* before DROP TABLE WORKING_DAG
WorkingExists(s) == s.pc \in {"sorting", NoSuchTable, AlreadyExists}

\* CREATE TEMPORARY TABLE WORKING_DAG ...; INSERT INTO WORKING_DAG(source, sink)
\* SELECT source, sink FROM {table}
WorkingCopy(table) == [edges |-> table, leaves |-> {}]

\* INSERT INTO WORKING_DAG(source, leaf) SELECT DISTINCT sink, 1 FROM DAG:
\* the statement names the table DAG, whatever table the object was given;
\* the database holds the object's table only
LeafRows(name, table) ==
    IF name = "DAG"
    THEN [err |-> "none", leaves |-> {e[2] : e \in table}]
    ELSE [err |-> NoSuchTable, leaves |-> {}]

\* SELECT sink FROM WORKING_DAG WHERE leaf = 0
NonLeafSinks(w) == {e[2] : e \in w.edges}

\* SELECT DISTINCT source FROM WORKING_DAG WHERE source NOT IN (NonLeafSinks)
nodes_with_no_incoming_edges(w) ==
    ({e[1] : e \in w.edges} \cup w.leaves) \ NonLeafSinks(w)

\* DELETE FROM WORKING_DAG WHERE source NOT IN (NonLeafSinks)
DeleteNoIncoming(w) ==
    [edges |-> {e \in w.edges : e[1] \in NonLeafSinks(w)},
     leaves |-> w.leaves \cap NonLeafSinks(w)]

\* SqliteDAG.connect(path, table, source_field, sink_field) on a new database
SqlConnect(name) ==
    /\ sql.pc = "closed"
    /\ sql' = [NoSql EXCEPT !.name = name, !.pc = "open"]
    /\ UNCHANGED <<dag, pc, dir, graph, ready, gens, start, endpoints, snapshot, graph0, report>>
    /\ UNCHANGED <<second, edit, edits>>

\* SqliteDAG.add(edge); UNIQUE (source, sink) ON CONFLICT REPLACE
SqlAdd(e) ==
    /\ sql.pc # "closed"
    /\ sql.pc = "open" \/ edits < MaxEdits
    /\ Cardinality(sql.table \cup {e}) <= MaxEdges
    /\ sql' = [sql EXCEPT !.table = sql.table \cup {e}]
    /\ edits' = IF sql.pc = "open" THEN edits ELSE edits + 1
    /\ UNCHANGED <<dag, pc, dir, graph, ready, gens, start, endpoints, snapshot, graph0, report>>
    /\ UNCHANGED <<second, edit>>

\* SqliteDAG.discard(edge): DELETE FROM {table} WHERE source=? AND sink=?
SqlDiscard(e) ==
    /\ sql.pc # "closed"
    /\ sql.pc = "open" \/ edits < MaxEdits
    /\ sql' = [sql EXCEPT !.table = sql.table \ {e}]
    /\ edits' = IF sql.pc = "open" THEN edits ELSE edits + 1
    /\ UNCHANGED <<dag, pc, dir, graph, ready, gens, start, endpoints, snapshot, graph0, report>>
    /\ UNCHANGED <<second, edit>>

\* the top of "while True" for the generator state s with WORKING_DAG = w:
\* select, then "break" and the code after the loop (cycle = the non-leaf
\* rows; DROP TABLE WORKING_DAG; raise if cycle), or
\* "yield nodes_with_no_incoming_edges"
SqlSelect(s, w) ==
    LET rdy == nodes_with_no_incoming_edges(w)
    IN  IF rdy = {}
        THEN [s EXCEPT !.working = NoSql.working,
                       !.cycle = w.edges,
                       !.pc = IF w.edges # {} THEN "raised" ELSE "done"]
        ELSE [s EXCEPT !.working = w,
                       !.gens = Append(s.gens, rdy),
                       !.pc = "sorting"]

\* first next() on a new SqliteDAG.topsort() generator (an earlier generator
\* that is still suspended is given up): build WORKING_DAG, which fails when
\* the table is there already, then enter the loop
SqlTopsortStart ==
    /\ sql.pc # "closed"
    /\ LET s == [sql EXCEPT !.gens = <<>>, !.cycle = {}, !.snapshot = sql.table]
           copy == WorkingCopy(sql.table)
           leaf == LeafRows(sql.name, sql.table)
       IN  sql' = IF WorkingExists(sql)
                  THEN [s EXCEPT !.pc = AlreadyExists]
                  ELSE IF leaf.err # "none"
                       THEN [s EXCEPT !.working = copy, !.pc = leaf.err]
                       ELSE SqlSelect(s, [copy EXCEPT !.leaves = leaf.leaves])
    /\ UNCHANGED <<dag, pc, dir, graph, ready, gens, start, endpoints, snapshot, graph0, report>>
    /\ UNCHANGED <<second, edit, edits>>

\* a later next(): resume after the yield with the DELETE, then the loop top
SqlTopsortNext ==
    /\ sql.pc = "sorting"
    /\ sql' = SqlSelect(sql, DeleteNoIncoming(sql.working))
    /\ UNCHANGED <<dag, pc, dir, graph, ready, gens, start, endpoints, snapshot, graph0, report>>
    /\ UNCHANGED <<second, edit, edits>>

NextSql ==
    \/ \E name \in TableNames : SqlConnect(name)
    \/ \E e \in Edges : SqlAdd(e)
    \/ \E e \in Edges : SqlDiscard(e)
    \/ SqlTopsortStart
    \/ SqlTopsortNext

SpecSql == Init /\ [][NextSql]_vars

\* C20: for every edge set (and table name) SqliteDAG.topsort() has yielded a
\* prefix of the generations of the in-memory forward sort without filters
\* of the same edges, and once it has ended it has yielded all of them and
\* ended the same way: normally, or with CycleError on the same residual
\* edge set.
C20_SqliteTopsortAgrees ==
    sql.pc \notin {"closed", "open"} =>
        LET alone == SortAlone("iter", sql.snapshot, {}, {})
        IN  /\ IsPrefix(sql.gens, alone.gens)
            /\ sql.pc # "sorting" =>
                   /\ sql.gens = alone.gens
                   /\ sql.pc = alone.end
                   /\ sql.cycle = alone.graph

\* C20 restricted to a table named DAG and to sorts that find no WORKING_DAG
\* left by an earlier one: there the two sorts agree.
C20_AgreesOnTableNamedDAG ==
    (sql.name = "DAG" /\ sql.pc # AlreadyExists) => C20_SqliteTopsortAgrees

\* SqliteDAG.discard of an edge the table does not hold leaves the table as
\* it is (the DELETE matches no row) and disturbs no sort.
SqlDiscardAbsentIsNoOp ==
    [][\A e \in Edges :
           (SqlDiscard(e) /\ e \notin sql.table) =>
               /\ sql'.table = sql.table
               /\ sql'.pc = sql.pc
               /\ sql'.working = sql.working]_vars

====
